---- MODULE Spec2Model ----
(***************************************************************************)
(* A model of the Praxis agent core: the task orchestrator                 *)
(* (core/orchestrator.py), its decision strategy and the tiered memory     *)
(* store (cognitive/memory_core.py).                                       *)
(*                                                                         *)
(* Texts (goals, memory contents) are tuples of one-character strings.     *)
(* Probabilities are integers scaled by 100.                               *)
(***************************************************************************)
EXTENDS Integers, Sequences, FiniteSets, TLC

VARIABLES
    \* ---- Orchestrator (core/orchestrator.py) ----
    tasks,            \* every Task object created so far: id -> Task
    active_tasks,     \* keys of Orchestrator.active_tasks
    task_queue,       \* Orchestrator.task_queue
    is_running,       \* Orchestrator.is_running
    pc,               \* position of the _main_loop coroutine
    cur,              \* task_id held by _main_loop / _execute_task (0: none)
    step_idx,         \* step_idx of the for loop of _execute_task
    next_id,          \* the next fresh memory id (stands for uuid4)
    submitted,        \* history: task ids in the order execute_goal made them
    finalize_calls,   \* history: id -> number of _finalize_task calls
    trace,            \* history: what happened during the _execute_task call in progress
    dequeued,         \* history: ids in the order _main_loop popped them
    escaped,          \* history: ids whose _execute_task raised into _main_loop
    current_context,  \* keys of MemoryCore.current_context
    cli,              \* position of the run_cli_mode coroutine (praxis.py)
    \* ---- MemoryCore (cognitive/memory_core.py) ----
    task_episodes,    \* rows of the SQLite table task_episodes
    memory_metadata,  \* rows of the SQLite table memory_metadata
    short_term,       \* the short_term collection
    long_term,        \* the long_term collection
    episodic,         \* the episodic collection
    clock,            \* datetime.now(), in ticks
    short_term_added, \* history: <<id, timestamp>> of each add_short_term_memory
    search_in,        \* arguments of the last search_memories call
    search_out,       \* result of the last search_memories call
    context_in,       \* arguments of the last get_relevant_context call
    context_out,      \* result of the last get_relevant_context call
    \* ---- _create_fallback_plan applied to a drawn goal ----
    goal_in, plan_out, plan_called,
    \* ---- evaluate_options applied to drawn inputs ----
    eval_actions, eval_response, eval_out, eval_called

orchVars == <<tasks, active_tasks, task_queue, is_running, pc, cur, step_idx,
              submitted, finalize_calls, trace, dequeued, escaped,
              current_context>>
sqlVars  == <<task_episodes, memory_metadata>>
vecVars  == <<short_term, long_term, episodic>>
memVars  == <<task_episodes, memory_metadata, short_term, long_term, episodic,
              clock, short_term_added, search_in, search_out, context_in,
              context_out>>
planVars == <<goal_in, plan_out, plan_called>>
evalVars == <<eval_actions, eval_response, eval_out, eval_called>>
vars     == <<orchVars, next_id, memVars, planVars, evalVars, cli>>

-----------------------------------------------------------------------------
(* Bounds of the model *)

MaxGoalParts == 2     \* a drawn goal is at most this many fragments long
MaxTasks == 2         \* tasks submitted in one behaviour
MaxCandidates == 2    \* candidate actions handed to evaluate_options
MaxMemOps == 3        \* memories added in one behaviour of the memory store
MaxLimit == 2         \* limit argument of search_memories

-----------------------------------------------------------------------------
(* Texts *)

\* str.lower(), on the letters of the keywords
LowerChar(c) ==
    CASE c = "S" -> "s"
      [] c = "E" -> "e"
      [] c = "A" -> "a"
      [] c = "R" -> "r"
      [] c = "C" -> "c"
      [] c = "H" -> "h"
      [] c = "F" -> "f"
      [] c = "I" -> "i"
      [] c = "N" -> "n"
      [] c = "D" -> "d"
      [] c = "L" -> "l"
      [] OTHER -> c

Lower(s) == [i \in 1..Len(s) |-> LowerChar(s[i])]

\* sub in s  (Python substring test)
Contains(sub, s) ==
    \E off \in 0..(Len(s) - Len(sub)) :
        \A k \in 1..Len(sub) : s[off + k] = sub[k]

W_search == <<"s", "e", "a", "r", "c", "h">>
W_find   == <<"f", "i", "n", "d">>
W_file   == <<"f", "i", "l", "e">>
W_read   == <<"r", "e", "a", "d">>

\* The pieces goals are drawn from: mixed case, and "fi" + "le", which make a
\* keyword only when joined.
Fragments ==
    { <<"S", "e", "a", "r", "c", "h">>,
      <<"f", "i", "n", "d">>,
      <<"F", "I", "L", "E">>,
      <<"r", "e", "a", "d">>,
      <<"f", "i">>,
      <<"l", "e">>,
      <<"x", " ">> }

RECURSIVE GoalsUpTo(_)
GoalsUpTo(n) ==
    IF n = 0 THEN { <<>> }
    ELSE LET shorter == GoalsUpTo(n - 1)
         IN  shorter \cup { g \o f : g \in shorter, f \in Fragments }

Goals == GoalsUpTo(MaxGoalParts)

-----------------------------------------------------------------------------
(* Orchestrator._create_fallback_plan *)

Step(action, parameters) ==
    [kind |-> "step", action |-> action, parameters |-> parameters]

\* parameter mappings: name -> value, every value written as a text
EmptyDict == [k \in {} |-> <<>>]

SearchStep(goal) == Step("search_web", [query |-> goal, num_results |-> <<"5">>])
ListStep         == Step("list_directory", [path |-> <<".">>, recursive |-> <<"F">>])
InfoStep         == Step("get_system_info", EmptyDict)

\* _create_fallback_plan with the second keyword test written as elif
FallbackPlanElif(goal) ==
    LET g == Lower(goal)
    IN  IF Contains(W_search, g) \/ Contains(W_find, g) THEN <<SearchStep(goal)>>
        ELSE IF Contains(W_file, g) \/ Contains(W_read, g) THEN <<ListStep>>
        ELSE <<InfoStep>>

_create_fallback_plan(goal) ==
    LET g  == Lower(goal)
        p1 == IF Contains(W_search, g) \/ Contains(W_find, g)
              THEN <<SearchStep(goal)>> ELSE <<>>
        p2 == IF Contains(W_file, g) \/ Contains(W_read, g)
              THEN p1 \o <<ListStep>> ELSE p1
    IN  IF p2 = <<>> THEN <<InfoStep>> ELSE p2

ActionsOf(plan) == [i \in 1..Len(plan) |-> plan[i].action]

-----------------------------------------------------------------------------
(* _create_fallback_plan applied to every drawn goal *)

PlanInit ==
    /\ goal_in \in Goals
    /\ plan_out = <<>>
    /\ plan_called = FALSE

PlanIdle ==
    /\ goal_in = <<>>
    /\ plan_out = <<>>
    /\ plan_called = FALSE

CallFallbackPlan ==
    /\ ~plan_called
    /\ plan_out' = _create_fallback_plan(goal_in)
    /\ plan_called' = TRUE
    /\ UNCHANGED <<goal_in, orchVars, next_id, memVars, evalVars, cli>>

-----------------------------------------------------------------------------
(* GeneralizedMinimaxStrategy *)

None == "None"

\* The action names inputs are drawn from: two of the heuristic table and one
\* outside it.
ActionNames == {"search_web", "list_directory", "get_system_info"}

\* The values json.loads can give for the content of an LLMResponse.
JInvalid == [kind |-> "invalid"]     \* not JSON: json.loads raises
JArrayOf(items) == [kind |-> "array", items |-> items]
JObject(fields) == [kind |-> "object", fields |-> fields]

\* LLMResponse, reduced to the two fields the core reads
LLMResponse(success, content) == [success |-> success, content |-> content]

\* action_priorities.get(action, 0.5), scaled by 100
Priority(action) ==
    CASE action = "search_web"      -> 80
      [] action = "read_file"       -> 90
      [] action = "write_file"      -> 70
      [] action = "list_directory"  -> 95
      [] action = "fetch_url"       -> 75
      [] action = "execute_python"  -> 60
      [] action = "execute_command" -> 40
      [] OTHER -> 50

Range(seq) == {seq[i] : i \in 1..Len(seq)}

\* The keys of a dict filled while iterating over seq, in insertion order
RECURSIVE KeysInOrder(_)
KeysInOrder(seq) ==
    IF seq = <<>> THEN <<>>
    ELSE LET front == KeysInOrder(SubSeq(seq, 1, Len(seq) - 1))
             last  == seq[Len(seq)]
         IN  IF last \in Range(front) THEN front ELSE Append(front, last)

\* max(keys, key=lambda k: f[k]): the first key with the greatest value
MaxByKey(keys, f) ==
    LET i == CHOOSE i \in 1..Len(keys) :
                 /\ \A j \in 1..Len(keys) : f[keys[j]] <= f[keys[i]]
                 /\ \A j \in 1..(i - 1) : f[keys[j]] < f[keys[i]]
    IN  keys[i]

DecisionPoint(options, risk_assessment, expected_value, selected_option, reasoning) ==
    [options |-> options, risk_assessment |-> risk_assessment,
     expected_value |-> expected_value, selected_option |-> selected_option,
     reasoning |-> reasoning]

\* actions is not empty (max of an empty dict raises)
_fallback_evaluation(actions) ==
    LET option(a) ==
            LET priority == Priority(a)
                risk     == 100 - priority
            IN  [action |-> a, success_probability |-> priority,
                 risk_score |-> risk,
                 expected_value |-> priority * (100 - risk)]
        options         == [i \in 1..Len(actions) |-> option(actions[i])]
        risk_assessment == [a \in Range(actions) |-> option(a).risk_score]
        expected_value  == [a \in Range(actions) |-> option(a).expected_value]
        best_action     == MaxByKey(KeysInOrder(actions), expected_value)
    IN  DecisionPoint(options, risk_assessment, expected_value, best_action,
                      "Fallback heuristic evaluation")

\* dict.get(key, default) on the fields of a parsed JSON object
Get(fields, key, default) ==
    IF key \in DOMAIN fields THEN fields[key] ELSE default

\* evaluate_options once llm_gateway.generate has returned response
evaluate_options(available_actions, response) ==
    IF ~response.success THEN _fallback_evaluation(available_actions)
    ELSE IF response.content.kind = "object"
         THEN LET evaluation_data == response.content.fields
              IN  DecisionPoint(Get(evaluation_data, "options", <<>>),
                                Get(evaluation_data, "risk_assessment", EmptyDict),
                                Get(evaluation_data, "expected_value", EmptyDict),
                                Get(evaluation_data, "selected_option", None),
                                Get(evaluation_data, "reasoning", None))
         \* json.loads raised, or .get raised on a value that is no dict
         ELSE _fallback_evaluation(available_actions)

-----------------------------------------------------------------------------
(* evaluate_options applied to drawn candidate lists and responses *)

RECURSIVE SeqsUpTo(_, _)
SeqsUpTo(S, n) ==
    IF n = 0 THEN { <<>> }
    ELSE LET shorter == SeqsUpTo(S, n - 1)
         IN  shorter \cup { Append(q, x) : q \in shorter, x \in S }

CandidateLists == SeqsUpTo(ActionNames, MaxCandidates) \ { <<>> }

\* expected_value mappings a response can carry: scores scaled by 10^4
ScoreMaps ==
    UNION { [S -> {900, 6400}] : S \in SUBSET ActionNames }

\* option lists a response can carry, probabilities scaled by 100 and
\* expected values by 10^4: one whose expected_value is
\* success_probability * (1 - risk_score), and the one of the example in the
\* evaluation prompt (0.85, 0.2, 0.65), whose expected_value is not
OptionLists ==
    { << [action |-> "search_web", success_probability |-> 80,
          risk_score |-> 20, expected_value |-> 6400] >>,
      << [action |-> "search_web", success_probability |-> 85,
          risk_score |-> 20, expected_value |-> 6500] >> }

EvalObjects ==
    { JObject([expected_value |-> ev, selected_option |-> sel])
        : ev \in ScoreMaps, sel \in ActionNames }
    \cup { JObject([expected_value |-> ev]) : ev \in ScoreMaps }
    \cup { JObject(EmptyDict) }
    \cup { JObject([options |-> o, selected_option |-> "search_web",
                    expected_value |-> [a \in {"search_web"} |->
                                           o[1].expected_value]])
             : o \in OptionLists }

EvalResponses ==
    { LLMResponse(FALSE, JInvalid),       \* success = False
      LLMResponse(TRUE, JInvalid),        \* "" (a transport error) or other text
      LLMResponse(TRUE, JArrayOf(<<>>)) } \* JSON, but no object
    \cup { LLMResponse(TRUE, o) : o \in EvalObjects }

EvalInit ==
    /\ eval_actions \in CandidateLists
    /\ eval_response \in EvalResponses
    /\ eval_out = None
    /\ eval_called = FALSE

EvalIdle ==
    /\ eval_actions = <<>>
    /\ eval_response = LLMResponse(FALSE, JInvalid)
    /\ eval_out = None
    /\ eval_called = FALSE

CallEvaluate ==
    /\ ~eval_called
    /\ eval_out' = evaluate_options(eval_actions, eval_response)
    /\ eval_called' = TRUE
    /\ UNCHANGED <<eval_actions, eval_response, orchVars, next_id, memVars,
                   planVars, cli>>

-----------------------------------------------------------------------------
(* MemoryCore: collaborators *)

max_short_term_memories == 1   \* config.max_short_term_memories, scaled down

CountChar(text, c) == Cardinality({i \in 1..Len(text) : text[i] = c})

\* embedding_model.encode(text): a fixed function of the text
Embed(text) == <<Len(text), CountChar(text, "e")>>

\* the distance a collection reports for a query (squared L2)
Distance(u, v) ==
    (u[1] - v[1]) * (u[1] - v[1]) + (u[2] - v[2]) * (u[2] - v[2])

\* datetime.now(): the clock counts half seconds, so that timestamps with and
\* without a fractional part both occur
Now(ticks) == [sec |-> ticks \div 2, frac |-> ticks % 2]

\* datetime.isoformat(): the fraction is left out when it is zero
isoformat(ts) == IF ts.frac = 0 THEN <<ts.sec>> ELSE <<ts.sec, ts.frac>>

\* datetime.fromisoformat()
fromisoformat(str) ==
    IF Len(str) = 1 THEN [sec |-> str[1], frac |-> 0]
    ELSE [sec |-> str[1], frac |-> str[2]]

TimeLeq(a, b) == a.sec < b.sec \/ (a.sec = b.sec /\ a.frac <= b.frac)

\* One step of list.sort(key=...), which is stable and ascending: x is put
\* after every item of the sorted list whose key is not greater than its own.
\* notGreater[i] tells whether the key of sorted[i] is not greater than x's.
InsertSorted(sorted, x, notGreater) ==
    LET k == IF \A i \in 1..Len(sorted) : notGreater[i]
             THEN Len(sorted)
             ELSE (CHOOSE i \in 1..Len(sorted) :
                       /\ ~notGreater[i]
                       /\ \A j \in 1..(i - 1) : notGreater[j]) - 1
    IN  SubSeq(sorted, 1, k) \o <<x>> \o SubSeq(sorted, k + 1, Len(sorted))

Min(a, b) == IF a <= b THEN a ELSE b

DistanceLeq(a, b) == a.distance <= b.distance

\* results.sort(key=lambda x: x["distance"])
RECURSIVE SortByDistance(_)
SortByDistance(seq) ==
    IF seq = <<>> THEN <<>>
    ELSE LET sorted == SortByDistance(SubSeq(seq, 1, Len(seq) - 1))
             x      == seq[Len(seq)]
         IN  InsertSorted(sorted, x,
                 [i \in 1..Len(sorted) |-> DistanceLeq(sorted[i], x)])

\* collection.query(query_embeddings=[q], n_results=n): the n nearest items,
\* nearest first. n must be positive, or the call raises.
Query(collection, q, n) ==
    LET scored == [i \in 1..Len(collection) |->
                      [id |-> collection[i].id,
                       content |-> collection[i].document,
                       metadata |-> collection[i].metadata,
                       distance |-> Distance(q, collection[i].embedding)]]
        ranked == SortByDistance(scored)
    IN  SubSeq(ranked, 1, Min(n, Len(ranked)))

-----------------------------------------------------------------------------
(* MemoryCore: operations *)

MetadataRow(id, memory_type, ts, importance_score) ==
    [id |-> id, memory_type |-> memory_type, timestamp |-> ts,
     importance_score |-> importance_score]

TimeOfLeq(a, b) == TimeLeq(a[2], b[2])

\* memories_with_time.sort(key=lambda x: x[1])
RECURSIVE SortByTime(_)
SortByTime(seq) ==
    IF seq = <<>> THEN <<>>
    ELSE LET sorted == SortByTime(SubSeq(seq, 1, Len(seq) - 1))
             x      == seq[Len(seq)]
         IN  InsertSorted(sorted, x,
                 [i \in 1..Len(sorted) |-> TimeOfLeq(sorted[i], x)])

\* _cleanup_short_term_memory taking the excess from the wrong end of the
\* sorted list
CleanupNewest(collection) ==
    IF Len(collection) > max_short_term_memories
    THEN LET memories_with_time ==
                 SortByTime([i \in 1..Len(collection) |->
                     <<collection[i].id,
                       fromisoformat(collection[i].metadata.timestamp)>>])
             to_remove == Len(memories_with_time) - max_short_term_memories
         IN  {memories_with_time[Len(memories_with_time) + 1 - i][1]
                  : i \in 1..to_remove}
    ELSE {}

\* _cleanup_short_term_memory: the ids it deletes, given collection.get()
_cleanup_short_term_memory(collection) ==
    IF Len(collection) > max_short_term_memories
    THEN LET memories_with_time ==
                 SortByTime([i \in 1..Len(collection) |->
                     <<collection[i].id,
                       fromisoformat(collection[i].metadata.timestamp)>>])
             to_remove == Len(memories_with_time) - max_short_term_memories
         IN  {memories_with_time[i][1] : i \in 1..to_remove}
    ELSE {}

\* add_short_term_memory: the short_term collection and the memory_metadata
\* table it leaves
add_short_term_memory(content, memory_id, timestamp) ==
    LET added == Append(short_term,
                     [id |-> memory_id, document |-> content,
                      metadata |-> [timestamp |-> isoformat(timestamp)],
                      embedding |-> Embed(content)])
        rows  == memory_metadata
                     \cup {MetadataRow(memory_id, "short_term", timestamp, 0)}
        old   == _cleanup_short_term_memory(added)
    IN  [short_term |-> SelectSeq(added, LAMBDA m : m.id \notin old),
         memory_metadata |-> {r \in rows : r.id \notin old}]

\* add_long_term_memory
add_long_term_memory(content, importance_score, memory_id, timestamp) ==
    [long_term |-> Append(long_term,
                     [id |-> memory_id, document |-> content,
                      metadata |-> [importance_score |-> importance_score,
                                    timestamp |-> isoformat(timestamp)],
                      embedding |-> Embed(content)]),
     memory_metadata |-> memory_metadata
         \cup {MetadataRow(memory_id, "long_term", timestamp, importance_score)}]

\* episode_text = f"Goal: {episode.goal}\nResult: {episode.result}"
EpisodeText(episode) == <<"G">> \o episode.goal \o <<"R">> \o episode.result

\* store_task_episode: the INSERT into task_episodes
InsertEpisode(episode) == task_episodes \cup {episode}

\* get_memory_stats(): the count of each collection, COUNT(*) and
\* SUM(success) over task_episodes (SUM is NULL on an empty table, read as
\* 0), and their quotient, kept in hundredths, 0 over an empty table
get_memory_stats ==
    LET total      == Cardinality(task_episodes)
        successful == Cardinality({e \in task_episodes : e.success})
    IN  [short_term_count    |-> Len(short_term),
         long_term_count     |-> Len(long_term),
         episodic_count      |-> Len(episodic),
         total_episodes      |-> total,
         successful_episodes |-> successful,
         success_rate        |-> IF total > 0
                                 THEN (successful * 100) \div total
                                 ELSE 0]

\* store_task_episode: the add to the episodic collection
\* store_task_episode without the add to the episodic collection
SkipEpisodic(episode) == episodic

AddEpisodic(episode) ==
    Append(episodic,
        [id |-> episode.id, document |-> EpisodeText(episode),
         metadata |-> [episode_id |-> episode.id, success |-> episode.success],
         embedding |-> Embed(EpisodeText(episode))])

Collections(name) ==
    CASE name = "short_term" -> short_term
      [] name = "long_term"  -> long_term
      [] name = "episodic"   -> episodic

WithType(results, name) ==
    [i \in 1..Len(results) |->
        [id |-> results[i].id, content |-> results[i].content,
         metadata |-> results[i].metadata, distance |-> results[i].distance,
         memory_type |-> name]]

\* The loop of search_memories over collections_to_search: a query that
\* raises (n_results < 1) is caught and adds nothing.
RECURSIVE Gather(_, _, _)
Gather(names, q, limit) ==
    IF names = <<>> THEN <<>>
    ELSE LET name == names[1]
             found == IF limit >= 1
                      THEN WithType(Query(Collections(name), q, limit), name)
                      ELSE <<>>
         IN  found \o Gather(Tail(names), q, limit)

CollectionsToSearch(memory_type) ==
    IF memory_type = "all" THEN <<"short_term", "long_term", "episodic">>
    ELSE <<memory_type>>

\* search_memories cutting the merged results to the limit without sorting
SearchUnsorted(query, memory_type, limit) ==
    LET results == Gather(CollectionsToSearch(memory_type), Embed(query), limit)
    IN  SubSeq(results, 1, Min(limit, Len(results)))

\* search_memories
search_memories(query, memory_type, limit) ==
    LET results == Gather(CollectionsToSearch(memory_type), Embed(query), limit)
        sorted  == SortByDistance(results)
    IN  SubSeq(sorted, 1, Min(limit, Len(sorted)))

\* One step of context.sort(key=lambda x: x["relevance"], reverse=True),
\* which keeps items of equal relevance in their order
RECURSIVE SortByRelevance(_)
SortByRelevance(seq) ==
    IF seq = <<>> THEN <<>>
    ELSE LET sorted == SortByRelevance(SubSeq(seq, 1, Len(seq) - 1))
             x      == seq[Len(seq)]
         IN  InsertSorted(sorted, x,
                 [i \in 1..Len(sorted) |-> sorted[i].relevance >= x.relevance])

\* an entry of the context list; relevance is scaled by 100, as
\* importance_score is (1.0 is 100)
ContextEntry(type, content, relevance) ==
    [type |-> type, content |-> content, relevance |-> relevance]

\* get_relevant_context without the test of the success flag
RelevantContextUnfiltered(current_goal, limit) ==
    LET similar_episodes  == search_memories(current_goal, "episodic", limit)
        relevant_memories == search_memories(current_goal, "long_term", limit)
        episodes == [i \in 1..Len(similar_episodes) |->
                        ContextEntry("successful_episode",
                            similar_episodes[i].content,
                            (1 - similar_episodes[i].distance) * 100)]
        memories == [i \in 1..Len(relevant_memories) |->
                        ContextEntry("long_term_memory",
                            relevant_memories[i].content,
                            (1 - relevant_memories[i].distance)
                                * Get(relevant_memories[i].metadata,
                                      "importance_score", 100))]
        context  == SortByRelevance(episodes \o memories)
    IN  SubSeq(context, 1, Min(limit, Len(context)))

\* get_relevant_context
get_relevant_context(current_goal, limit) ==
    LET similar_episodes  == search_memories(current_goal, "episodic", limit)
        relevant_memories == search_memories(current_goal, "long_term", limit)
        successful == SelectSeq(similar_episodes,
                          LAMBDA e : Get(e.metadata, "success", FALSE))
        episodes == [i \in 1..Len(successful) |->
                        ContextEntry("successful_episode",
                            successful[i].content,
                            (1 - successful[i].distance) * 100)]
        memories == [i \in 1..Len(relevant_memories) |->
                        ContextEntry("long_term_memory",
                            relevant_memories[i].content,
                            (1 - relevant_memories[i].distance)
                                * Get(relevant_memories[i].metadata,
                                      "importance_score", 100))]
        context  == SortByRelevance(episodes \o memories)
    IN  SubSeq(context, 1, Min(limit, Len(context)))

-----------------------------------------------------------------------------
(* The memory store driven by drawn calls *)

MemTexts == { <<"f", "i">>, <<"r", "e", "a", "d">> }

NoSearch == [query |-> <<>>, memory_type |-> "none", limit |-> 0]

NoContext == [current_goal |-> <<>>, limit |-> 0]

MemInit ==
    /\ task_episodes = {}
    /\ memory_metadata = {}
    /\ short_term = <<>>
    /\ long_term = <<>>
    /\ episodic = <<>>
    /\ clock = 1
    /\ short_term_added = <<>>
    /\ search_in = NoSearch
    /\ search_out = <<>>
    /\ context_in = NoContext
    /\ context_out = <<>>

Added == next_id - 1

\* A call of add_short_term_memory that returns. The next call of
\* datetime.now() may read the same time again.
AddShortTerm ==
    /\ Added < MaxMemOps
    /\ \E content \in MemTexts :
         LET r == add_short_term_memory(content, next_id, Now(clock))
         IN  /\ short_term' = r.short_term
             /\ memory_metadata' = r.memory_metadata
    /\ next_id' = next_id + 1
    /\ clock' \in {clock, clock + 1}
    /\ short_term_added' = Append(short_term_added, <<next_id, Now(clock)>>)
    /\ search_in' = NoSearch
    /\ search_out' = <<>>
    /\ context_in' = NoContext
    /\ context_out' = <<>>
    /\ UNCHANGED <<task_episodes, long_term, episodic, orchVars, planVars,
                   evalVars, cli>>

\* A call of add_long_term_memory that returns
AddLongTerm ==
    /\ Added < MaxMemOps
    /\ \E content \in MemTexts, importance_score \in {50, 100} :
         LET r == add_long_term_memory(content, importance_score, next_id,
                                       Now(clock))
         IN  /\ long_term' = r.long_term
             /\ memory_metadata' = r.memory_metadata
    /\ next_id' = next_id + 1
    /\ clock' = clock + 1
    /\ search_in' = NoSearch
    /\ search_out' = <<>>
    /\ context_in' = NoContext
    /\ context_out' = <<>>
    /\ UNCHANGED <<task_episodes, short_term, episodic, short_term_added, orchVars,
                   planVars, evalVars, cli>>

\* The item add_short_term_memory / add_long_term_memory hands to
\* collection.add
VectorItem(content, memory_id, metadata) ==
    [id |-> memory_id, document |-> content, metadata |-> metadata,
     embedding |-> Embed(content)]

\* A call of add_short_term_memory in which collection.add returns and the
\* INSERT of _store_memory_metadata raises (the database is locked): the
\* exception leaves add_short_term_memory, nothing undoes the add, and
\* _cleanup_short_term_memory is not reached
AddShortTermRaises ==
    /\ Added < MaxMemOps
    /\ \E content \in MemTexts :
         short_term' = Append(short_term,
             VectorItem(content, next_id,
                        [timestamp |-> isoformat(Now(clock))]))
    /\ next_id' = next_id + 1
    /\ clock' = clock + 1
    /\ short_term_added' = Append(short_term_added, <<next_id, Now(clock)>>)
    /\ search_in' = NoSearch
    /\ search_out' = <<>>
    /\ context_in' = NoContext
    /\ context_out' = <<>>
    /\ UNCHANGED <<task_episodes, memory_metadata, long_term, episodic, orchVars,
                   planVars, evalVars, cli>>

\* The same in add_long_term_memory
AddLongTermRaises ==
    /\ Added < MaxMemOps
    /\ \E content \in MemTexts, importance_score \in {50, 100} :
         long_term' = Append(long_term,
             VectorItem(content, next_id,
                        [importance_score |-> importance_score,
                         timestamp |-> isoformat(Now(clock))]))
    /\ next_id' = next_id + 1
    /\ clock' = clock + 1
    /\ search_in' = NoSearch
    /\ search_out' = <<>>
    /\ context_in' = NoContext
    /\ context_out' = <<>>
    /\ UNCHANGED <<task_episodes, memory_metadata, short_term, episodic,
                   short_term_added, orchVars, planVars, evalVars, cli>>

\* A call of add_short_term_memory whose cleanup has something to remove,
\* deletes the first of it from the collection, and whose DELETE FROM
\* memory_metadata raises: the except clause of _cleanup_short_term_memory
\* prints the error, and the call returns with the row still in the table
AddShortTermDeleteRaises ==
    /\ Added < MaxMemOps
    /\ \E content \in MemTexts :
         LET added == Append(short_term,
                          VectorItem(content, next_id,
                                     [timestamp |-> isoformat(Now(clock))]))
             old   == _cleanup_short_term_memory(added)
         IN  /\ old # {}
             /\ \E memory_id \in old :
                  /\ \A other \in old :
                        \E i \in 1..Len(added), j \in 1..Len(added) :
                            /\ added[i].id = memory_id
                            /\ added[j].id = other
                            /\ TimeLeq(fromisoformat(added[i].metadata.timestamp),
                                       fromisoformat(added[j].metadata.timestamp))
                  /\ short_term' = SelectSeq(added, LAMBDA m : m.id # memory_id)
             /\ memory_metadata' = memory_metadata
                    \cup {MetadataRow(next_id, "short_term", Now(clock), 0)}
    /\ next_id' = next_id + 1
    /\ clock' = clock + 1
    /\ short_term_added' = Append(short_term_added, <<next_id, Now(clock)>>)
    /\ search_in' = NoSearch
    /\ search_out' = <<>>
    /\ context_in' = NoContext
    /\ context_out' = <<>>
    /\ UNCHANGED <<task_episodes, long_term, episodic, orchVars, planVars,
                   evalVars, cli>>

\* A call of store_task_episode that returns
StoreEpisode ==
    /\ Added < MaxMemOps
    /\ \E goal \in MemTexts, success \in BOOLEAN :
         LET episode == [id |-> next_id, goal |-> goal,
                         result |-> IF success THEN <<"ok">> ELSE <<"error">>,
                         success |-> success]
         IN  /\ task_episodes' = InsertEpisode(episode)
             /\ episodic' = AddEpisodic(episode)
    /\ next_id' = next_id + 1
    /\ search_in' = NoSearch
    /\ search_out' = <<>>
    /\ context_in' = NoContext
    /\ context_out' = <<>>
    /\ UNCHANGED <<memory_metadata, short_term, long_term, clock, short_term_added,
                   orchVars, planVars, evalVars, cli>>

\* A call of search_memories; its result is held until the next call
Search ==
    /\ search_in = NoSearch
    /\ context_in = NoContext
    /\ \E query \in MemTexts,
          memory_type \in {"short_term", "long_term", "episodic", "all"},
          limit \in 0..MaxLimit :
         /\ search_in' = [query |-> query, memory_type |-> memory_type,
                          limit |-> limit]
         /\ search_out' = search_memories(query, memory_type, limit)
    /\ UNCHANGED <<task_episodes, memory_metadata, short_term, long_term,
                   episodic, clock, short_term_added, context_in, context_out,
                   next_id, orchVars, planVars, evalVars, cli>>

\* A call of get_relevant_context; its result is held until the next call
RelevantContext ==
    /\ context_in = NoContext
    /\ search_in = NoSearch
    /\ \E current_goal \in MemTexts, limit \in 0..MaxLimit :
         /\ context_in' = [current_goal |-> current_goal, limit |-> limit]
         /\ context_out' = get_relevant_context(current_goal, limit)
    /\ UNCHANGED <<task_episodes, memory_metadata, short_term, long_term,
                   episodic, clock, short_term_added, search_in, search_out,
                   next_id, orchVars, planVars, evalVars, cli>>

-----------------------------------------------------------------------------
(* Orchestrator: data *)

NoText == <<>>     \* None, and the empty string: both are falsy

\* a task record created already in the planning state
TaskPlanning(id, goal) ==
    [id |-> id, goal |-> goal, status |-> "planning", plan |-> <<>>,
     actions |-> <<>>, context |-> EmptyDict, end_time |-> "None",
     result |-> NoText, error |-> NoText]

Task(id, goal) ==
    [id |-> id, goal |-> goal, status |-> "pending", plan |-> <<>>,
     actions |-> <<>>, context |-> EmptyDict, end_time |-> "None",
     result |-> NoText, error |-> NoText]

\* ActionResult, reduced to the fields the orchestrator reads
ActionResult(success, error) == [success |-> success, error |-> error]

\* action_toolkit.actions
RegisteredActions ==
    {"read_file", "write_file", "list_directory", "copy_file", "delete_file",
     "fetch_url", "search_web", "extract_text_from_html", "execute_python",
     "execute_command", "get_system_info", "get_running_processes"}

\* execute_action without the test of the name: the handler call for every
\* name
ExecuteAnyAction(action_name) ==
    { ActionResult(TRUE, NoText), ActionResult(FALSE, <<"timeout">>) }

\* What execute_action can return for an action name: a failed result for a
\* name that is not registered, whatever the handler returns otherwise.
execute_action(action_name) ==
    IF action_name \notin RegisteredActions
    THEN { ActionResult(FALSE, <<"Unknown action: ", action_name>>) }
    ELSE { ActionResult(TRUE, NoText), ActionResult(FALSE, <<"timeout">>) }

GoodStep  == Step("read_file", [path |-> <<"a">>])
RogueStep == Step("launch_rocket", EmptyDict)     \* no registered action
\* An element of a JSON array that is no Step: step['action'] raises
JNumber   == [kind |-> "number"]

\* The JSON arrays a planning response can hold
PlanArrays ==
    { <<>>,
      <<GoodStep, GoodStep>>,
      <<GoodStep, JNumber>>,
      <<RogueStep>> }

PlanResponses ==
    { LLMResponse(FALSE, JInvalid),
      LLMResponse(TRUE, JInvalid),
      LLMResponse(TRUE, JObject(EmptyDict)) }
    \cup { LLMResponse(TRUE, JArrayOf(a)) : a \in PlanArrays }

RecoveryResponses ==
    { LLMResponse(FALSE, JInvalid),
      LLMResponse(TRUE, JInvalid),
      LLMResponse(TRUE, JObject(EmptyDict)),
      LLMResponse(TRUE, JObject([alternative_action |-> "fetch_url"])),
      LLMResponse(TRUE, JObject([alternative_action |-> "launch_rocket"])) }

\* The goals tasks are submitted with
OrchGoals == { <<"f", "i", "n", "d">> }

\* str(e) of an exception raised by a collaborator
ExceptionText == <<"collaborator raised">>
\* str(e) of the TypeError of step['action'] on a number
SubscriptErrorText == <<"'int' object is not subscriptable">>

-----------------------------------------------------------------------------
(* Orchestrator: planning *)

\* _create_plan once llm_gateway.generate has returned response
_create_plan(goal, response) ==
    IF response.success /\ response.content.kind # "invalid"
    THEN IF response.content.kind = "array" THEN response.content.items ELSE <<>>
    ELSE _create_fallback_plan(goal)

-----------------------------------------------------------------------------
(* Orchestrator: lifecycle, submission and the dispatch loop *)

OrchInit ==
    /\ tasks = [t \in {} |-> Task(t, <<>>)]
    /\ active_tasks = {}
    /\ task_queue = <<>>
    /\ is_running = FALSE
    /\ pc = "init"
    /\ cur = 0
    /\ step_idx = 0
    /\ submitted = <<>>
    /\ finalize_calls = [t \in {} |-> 0]
    /\ trace = <<>>
    /\ dequeued = <<>>
    /\ escaped = {}
    /\ current_context = {}
    /\ cli = "init"

\* start(): up to the first iteration of _main_loop
Start ==
    /\ pc = "init"
    /\ is_running' = TRUE
    /\ pc' = "loop_test"
    /\ UNCHANGED <<tasks, active_tasks, task_queue, cur, step_idx, submitted,
                   finalize_calls, trace, dequeued, escaped, current_context, next_id,
                   memVars, planVars, evalVars, cli>>

\* stop()
Stop ==
    /\ is_running
    /\ is_running' = FALSE
    /\ UNCHANGED <<tasks, active_tasks, task_queue, pc, cur, step_idx, submitted,
                   finalize_calls, trace, dequeued, escaped, current_context, next_id,
                   memVars, planVars, evalVars, cli>>

\* An entry of the history of the _execute_task call in progress: a call
\* made for plan step number step (0: for none), with the action it names
Event(kind, step, name) == [kind |-> kind, step |-> step, name |-> name]

\* task_id = str(uuid.uuid4()): an id no other task and no memory has. The
\* ids of memories count up from 1, those of tasks down from -1.
NewTaskId == -(Len(submitted) + 1)

\* execute_goal(goal)
ExecuteGoal(goal) ==
    /\ Len(submitted) < MaxTasks
    /\ tasks' = [t \in DOMAIN tasks \cup {NewTaskId} |->
                   IF t = NewTaskId THEN Task(NewTaskId, goal) ELSE tasks[t]]
    /\ active_tasks' = active_tasks \cup {NewTaskId}
    /\ task_queue' = Append(task_queue, NewTaskId)
    /\ submitted' = Append(submitted, NewTaskId)
    /\ finalize_calls' = [t \in DOMAIN finalize_calls \cup {NewTaskId} |->
                             IF t = NewTaskId THEN 0 ELSE finalize_calls[t]]
    /\ trace' = IF pc \in {"create_plan", "for_step", "handle_failure",
                            "after_loop"}
                THEN Append(trace, Event("submit", 0, "execute_goal"))
                ELSE trace
    /\ UNCHANGED <<is_running, pc, cur, step_idx, dequeued, escaped,
                   current_context, next_id, memVars, planVars, evalVars, cli>>

\* execute_goal called with one of the goals of the orchestration runs
execute_goal == \E goal \in OrchGoals : ExecuteGoal(goal)

-----------------------------------------------------------------------------
(* run_cli_mode (praxis.py): the coroutine asyncio.run drives in CLI mode.
   The event loop resumes another coroutine only when the running one
   suspends. run_cli_mode never does: input() blocks the thread, and
   execute_goal and stop contain no await, so awaiting them returns without
   yielding. The coroutine of orchestrator.start(), scheduled by create_task,
   therefore stays at its first instruction (pc = "init") until the finally
   block cancels it; none of its actions is a step of CLI mode. *)

QuitText == <<"q">>
HelpText == <<"h", "e", "l", "p">>

\* what the user may type at the prompt, stripped
CliInputs == Goals \cup {QuitText, HelpText}

\* orchestrator_task = asyncio.create_task(orchestrator.start())
CliCreateTask ==
    /\ cli = "init"
    /\ pc = "init"
    /\ cli' = "prompt"
    /\ UNCHANGED <<orchVars, next_id, memVars, planVars, evalVars>>

\* one iteration of the while loop that ends at the prompt again: an empty
\* line or a command leaves the orchestrator alone, any other line is
\* submitted as a goal
CliIteration ==
    /\ cli = "prompt"
    /\ \E user_input \in CliInputs \ {QuitText} :
         IF user_input = <<>> \/ user_input = HelpText
         THEN UNCHANGED vars
         ELSE ExecuteGoal(user_input)

\* the iteration that reads quit, and the finally block it leads to:
\* orchestrator.stop(), then orchestrator_task.cancel() on the coroutine
\* that never ran
CliQuit ==
    /\ cli = "prompt"
    /\ cli' = "done"
    /\ is_running' = FALSE
    /\ pc' = "cancelled"
    /\ UNCHANGED <<tasks, active_tasks, task_queue, cur, step_idx, submitted,
                   finalize_calls, trace, dequeued, escaped, current_context,
                   next_id, memVars, planVars, evalVars>>

CliNext == CliCreateTask \/ CliIteration \/ CliQuit

\* _main_loop: the loop test fails
LoopExit ==
    /\ pc = "loop_test"
    /\ ~is_running
    /\ pc' = "exited"
    /\ UNCHANGED <<tasks, active_tasks, task_queue, is_running, cur, step_idx,
                   submitted, finalize_calls, trace, dequeued, escaped, current_context,
                   next_id, memVars, planVars, evalVars, cli>>

\* _main_loop: an iteration with an empty queue
LoopIdle ==
    /\ pc = "loop_test"
    /\ is_running
    /\ task_queue = <<>>
    /\ pc' = "sleep"
    /\ UNCHANGED <<tasks, active_tasks, task_queue, is_running, cur, step_idx,
                   submitted, finalize_calls, trace, dequeued, escaped, current_context,
                   next_id, memVars, planVars, evalVars, cli>>

\* a loop that pops without looking at is_running, to compare with Dequeue
DequeueStopped ==
    /\ pc = "loop_test"
    /\ task_queue # <<>>
    /\ LET task_id == Head(task_queue)
       IN  /\ task_queue' = Tail(task_queue)
           /\ dequeued' = Append(dequeued, task_id)
           /\ cur' = task_id
           /\ tasks' = [tasks EXCEPT ![task_id].status = "planning"]
           /\ current_context' = current_context \cup {<<"current_task">>}
           /\ pc' = "create_plan"
    /\ UNCHANGED <<active_tasks, is_running, step_idx, submitted, finalize_calls, trace,
                   escaped, next_id, memVars, planVars, evalVars, cli>>

\* _main_loop: task_queue.pop(0), and _execute_task up to the await of
\* _create_plan (status = PLANNING, update_current_context)
Dequeue ==
    /\ pc = "loop_test"
    /\ is_running
    /\ task_queue # <<>>
    /\ LET task_id == Head(task_queue)
       IN  /\ task_queue' = Tail(task_queue)
           /\ dequeued' = Append(dequeued, task_id)
           /\ IF task_id \in active_tasks
              THEN /\ cur' = task_id
                   /\ tasks' = [tasks EXCEPT ![task_id].status = "planning"]
                   /\ current_context' = current_context \cup {<<"current_task">>}
                   /\ pc' = "create_plan"
              ELSE /\ pc' = "sleep"
                   /\ UNCHANGED <<cur, tasks, current_context>>
    /\ UNCHANGED <<active_tasks, is_running, step_idx, submitted, finalize_calls, trace,
                   escaped, next_id, memVars, planVars, evalVars, cli>>

\* asyncio.sleep(0.1) at the end of an iteration
Sleep ==
    /\ pc = "sleep"
    /\ pc' = "loop_test"
    /\ UNCHANGED <<tasks, active_tasks, task_queue, is_running, cur, step_idx,
                   submitted, finalize_calls, trace, dequeued, escaped, current_context,
                   next_id, memVars, planVars, evalVars, cli>>

\* a loop that an escaping exception ends, to compare with MainLoopExcept
MainLoopRaises ==
    /\ pc = "main_except"
    /\ pc' = "exited"
    /\ cur' = 0
    /\ UNCHANGED <<tasks, active_tasks, task_queue, is_running, step_idx,
                   submitted, finalize_calls, trace, dequeued, escaped, current_context,
                   next_id, memVars, planVars, evalVars, cli>>

\* except Exception in _main_loop, and its asyncio.sleep(1)
MainLoopExcept ==
    /\ pc = "main_except"
    /\ pc' = "loop_test"
    /\ cur' = 0
    /\ UNCHANGED <<tasks, active_tasks, task_queue, is_running, step_idx,
                   submitted, finalize_calls, trace, dequeued, escaped, current_context,
                   next_id, memVars, planVars, evalVars, cli>>

-----------------------------------------------------------------------------
(* Orchestrator: _execute_task *)

\* what the loop leaves alone while it works on one task
loopFrame == <<active_tasks, task_queue, is_running, submitted, dequeued,
               escaped, planVars, evalVars, cli>>

\* except Exception as e: in _execute_task
Failed(task, text) == [task EXCEPT !.status = "failed", !.error = text]

\* _execute_task: an exception while the plan is made (get_relevant_context,
\* or json.dumps of the context for the prompt)
PlanRaises ==
    /\ pc = "create_plan"
    /\ tasks' = [tasks EXCEPT ![cur] = Failed(@, ExceptionText)]
    /\ pc' = "finally"
    /\ UNCHANGED <<cur, step_idx, finalize_calls, trace, current_context, next_id,
                   memVars, loopFrame>>

\* _execute_task: _create_plan returns; status = EXECUTING
\* What llm_gateway.generate answered to the planning prompt: no answer, a
\* text that is not JSON, JSON that is no array, an array holding something
\* that is no Step, or an array of Steps
PlanResponseKind(response) ==
    IF ~response.success THEN "transport_failure"
    ELSE IF response.content.kind = "invalid" THEN "not_json"
    ELSE IF response.content.kind # "array" THEN "not_array"
    ELSE IF \E i \in 1..Len(response.content.items) :
                response.content.items[i].kind # "step" THEN "not_steps"
    ELSE "steps"

CreatePlan ==
    /\ pc = "create_plan"
    /\ \E response \in PlanResponses :
         /\ tasks' = [tasks EXCEPT
                         ![cur].plan = _create_plan(tasks[cur].goal, response),
                         ![cur].status = "executing"]
         /\ trace' = Append(trace, Event("plan", 0, PlanResponseKind(response)))
    /\ step_idx' = 0
    /\ pc' = "for_step"
    /\ UNCHANGED <<cur, finalize_calls, current_context, next_id, memVars,
                   loopFrame>>

\* the step number of an entry taken without the + 1
StepNumberZeroBased(idx) == idx

\* step_idx + 1
StepNumber(idx) == idx + 1

StepEntry(idx, step, result) ==
    [type |-> "step", step |-> StepNumber(idx), action |-> step,
     result |-> result]

RecoveryEntry(failed_step, alternative, alt_result) ==
    [type |-> "recovery", original_step |-> failed_step,
     alternative |-> alternative, result |-> alt_result]

\* f"Failed at step {step_idx + 1}: {result.error}"
StepFailureText(idx, result) ==
    <<"Failed at step ", ToString(StepNumber(idx)), ": ">> \o result.error

\* f"step_{step_idx}"
ContextKey(idx) == <<"step_", ToString(idx)>>

\* the for loop of _execute_task is exhausted
ForEnd ==
    /\ pc = "for_step"
    /\ step_idx >= Len(tasks[cur].plan)
    /\ pc' = "after_loop"
    /\ UNCHANGED <<tasks, cur, step_idx, finalize_calls, trace, current_context,
                   next_id, memVars, loopFrame>>

\* an iteration of the for loop that raises: step['action'] on an element
\* that is no Step, or a collaborator of _execute_step raising
StepRaises ==
    /\ pc = "for_step"
    /\ step_idx < Len(tasks[cur].plan)
    /\ LET step == tasks[cur].plan[step_idx + 1]
       IN  tasks' = [tasks EXCEPT ![cur] =
                        Failed(@, IF step.kind = "step" THEN ExceptionText
                                  ELSE SubscriptErrorText)]
    /\ pc' = "finally"
    /\ UNCHANGED <<cur, step_idx, finalize_calls, trace, current_context, next_id,
                   memVars, loopFrame>>

\* f"Step: {action_name} -> {'Success' if result.success else 'Failed'}"
StepMemoryText(action_name, result) ==
    <<"Step: ", action_name, " -> ",
      IF result.success THEN "Success" ELSE "Failed">>

\* _execute_step with the action executed before the options are evaluated
ExecuteBeforeEvaluate(step, action_name) ==
    << Event("execute", step, action_name),
       Event("evaluate", step, action_name),
       Event("remember", step, action_name) >>

\* _execute_step with a decision that blocks an action it does not know
ExecuteIfKnown(step, action_name) ==
    << Event("evaluate", step, action_name) >>
    \o (IF action_name \in RegisteredActions
        THEN << Event("execute", step, action_name) >> ELSE << >>)
    \o << Event("remember", step, action_name) >>

\* The calls _execute_step makes, in their order: strategy.evaluate_options,
\* action_toolkit.execute_action, memory_core.add_short_term_memory
_execute_step(step, action_name) ==
    << Event("evaluate", step, action_name),
       Event("execute", step, action_name),
       Event("remember", step, action_name) >>

\* an iteration of the for loop: _execute_step (evaluate_options, then
\* execute_action, then add_short_term_memory), the log entry, and on
\* success the context update
ExecuteStep ==
    /\ pc = "for_step"
    /\ step_idx < Len(tasks[cur].plan)
    /\ LET step == tasks[cur].plan[step_idx + 1]
       IN  /\ step.kind = "step"
           /\ \E result \in execute_action(step.action) :
                /\ LET r == add_short_term_memory(
                                StepMemoryText(step.action, result), next_id,
                                Now(clock))
                   IN  /\ short_term' = r.short_term
                       /\ memory_metadata' = r.memory_metadata
                /\ tasks' = [tasks EXCEPT ![cur].actions =
                                 Append(@, StepEntry(step_idx, step, result))]
                /\ trace' = trace
                       \o _execute_step(StepNumber(step_idx), step.action)
                       \o <<Event("log", StepNumber(step_idx), step.action)>>
                /\ IF result.success
                   THEN \* result.result may be falsy (None, "", [])
                        /\ \E truthy \in BOOLEAN :
                               current_context' =
                                   IF truthy
                                   THEN current_context \cup {ContextKey(step_idx)}
                                   ELSE current_context
                        /\ step_idx' = step_idx + 1
                        /\ pc' = "for_step"
                   ELSE /\ pc' = "handle_failure"
                        /\ UNCHANGED <<step_idx, current_context>>
    /\ short_term_added' = Append(short_term_added, <<next_id, Now(clock)>>)
    /\ next_id' = next_id + 1
    /\ clock' = clock + 1
    /\ UNCHANGED <<cur, finalize_calls, task_episodes, long_term, episodic,
                   search_in, search_out, context_in, context_out,
                   loopFrame>>

\* _handle_failure reporting success whatever the alternative returned
HandleFailureLenient(response) ==
    IF response.success /\ response.content.kind = "object"
                        /\ "alternative_action" \in DOMAIN response.content.fields
    THEN LET alternative == response.content.fields
         IN  { <<TRUE, alternative, alt_result>>
                 : alt_result \in execute_action(alternative.alternative_action) }
    ELSE { <<FALSE, EmptyDict, ActionResult(FALSE, NoText)>> }

\* What _handle_failure can do once generate has returned response: give up
\* (FALSE), or run the alternative and return whether it succeeded.
\* Each outcome is <<recovery_success, alternative, alt_result>>.
_handle_failure(response) ==
    IF response.success /\ response.content.kind = "object"
                        /\ "alternative_action" \in DOMAIN response.content.fields
    THEN LET alternative == response.content.fields
         IN  { <<alt_result.success, alternative, alt_result>>
                 : alt_result \in execute_action(alternative.alternative_action) }
    ELSE { <<FALSE, EmptyDict, ActionResult(FALSE, NoText)>> }

\* The calls _handle_failure makes for plan step number step, given its
\* outcome: llm_gateway.generate, then execute_action when the answer names
\* an alternative, then the append of the recovery entry when that succeeded
RecoveryEvents(step, outcome) ==
    << Event("request", step, "generate") >>
    \o (IF "alternative_action" \in DOMAIN outcome[2]
        THEN << Event("attempt", step, outcome[2].alternative_action) >>
        ELSE << >>)
    \o (IF outcome[1]
        THEN << Event("recovery_log", step, outcome[2].alternative_action) >>
        ELSE << >>)

\* _handle_failure for the step that failed, and what _execute_task does
\* with its answer
HandleFailure ==
    /\ pc = "handle_failure"
    /\ LET step   == tasks[cur].plan[step_idx + 1]
           result == tasks[cur].actions[Len(tasks[cur].actions)].result
       IN  \E response \in RecoveryResponses :
           \E outcome \in _handle_failure(response) :
             /\ trace' = trace \o RecoveryEvents(StepNumber(step_idx), outcome)
             /\ IF outcome[1]
               THEN /\ tasks' = [tasks EXCEPT ![cur].actions =
                                    Append(@, RecoveryEntry(step, outcome[2],
                                                            outcome[3]))]
                    /\ step_idx' = step_idx + 1
                    /\ pc' = "for_step"
               ELSE /\ tasks' = [tasks EXCEPT
                                    ![cur].status = "failed",
                                    ![cur].error = StepFailureText(step_idx, result)]
                    /\ pc' = "after_loop"
                    /\ UNCHANGED step_idx
    /\ UNCHANGED <<cur, finalize_calls, current_context, next_id, memVars,
                   loopFrame>>

\* the task marked completed without the status test
CompleteAlways(task) ==
    [task EXCEPT !.status = "completed",
                 !.result = <<"Task completed successfully">>]

\* if task.status == TaskStatus.EXECUTING: ... COMPLETED
CompleteIfExecuting(task) ==
    IF task.status = "executing"
    THEN [task EXCEPT !.status = "completed",
                      !.result = <<"Task completed successfully">>]
    ELSE task

AfterLoop ==
    /\ pc = "after_loop"
    /\ tasks' = [tasks EXCEPT ![cur] = CompleteIfExecuting(@)]
    /\ pc' = "finally"
    /\ UNCHANGED <<cur, step_idx, finalize_calls, trace, current_context, next_id,
                   memVars, loopFrame>>

\* finally: end_time is set and _finalize_task is called
Finally ==
    /\ pc = "finally"
    /\ tasks' = [tasks EXCEPT ![cur].end_time = "set"]
    /\ finalize_calls' = [finalize_calls EXCEPT ![cur] = @ + 1]
    /\ trace' = <<>>
    /\ pc' = "store_episode"
    /\ UNCHANGED <<cur, step_idx, current_context, next_id, memVars, loopFrame>>

\* task.result or task.error or "No result"
EpisodeResult(task) ==
    IF task.result # NoText THEN task.result
    ELSE IF task.error # NoText THEN task.error
    ELSE <<"No result">>

\* an episode that calls every task a success, to compare with EpisodeOf
EpisodeAlwaysSuccess(task) ==
    [id |-> task.id, goal |-> task.goal, result |-> EpisodeResult(task),
     success |-> TRUE]

\* TaskEpisode(...) of _finalize_task, reduced to the columns read later
EpisodeOf(task) ==
    [id |-> task.id, goal |-> task.goal, result |-> EpisodeResult(task),
     success |-> (task.status = "completed")]

memFrame == <<memory_metadata, short_term, long_term, clock, short_term_added,
              search_in, search_out, context_in, context_out>>

\* _finalize_task: store_task_episode returns
StoreReturns ==
    /\ pc = "store_episode"
    /\ task_episodes' = InsertEpisode(EpisodeOf(tasks[cur]))
    /\ episodic' = AddEpisodic(EpisodeOf(tasks[cur]))
    /\ pc' = "learn"
    /\ UNCHANGED <<tasks, cur, step_idx, finalize_calls, trace, current_context,
                   next_id, memFrame, loopFrame>>

\* _finalize_task: store_task_episode raises at its INSERT (the database is
\* locked, the disk is full); nothing is written, and the exception leaves
\* _finalize_task and _execute_task
StoreRaises ==
    /\ pc = "store_episode"
    /\ escaped' = escaped \cup {cur}
    /\ pc' = "main_except"
    /\ UNCHANGED <<tasks, cur, step_idx, finalize_calls, trace, current_context,
                   next_id, task_episodes, episodic, memFrame, active_tasks,
                   task_queue, is_running, submitted, dequeued, planVars,
                   evalVars, cli>>

\* learning_text of _finalize_task
LearningText(task) ==
    <<"Successfully completed: ">> \o task.goal \o <<". Strategy: ">>
        \o ActionsOf(task.plan)

\* _finalize_task after the episode is stored: the long-term memory of a
\* completed task, clear_current_context, and the removal from active_tasks;
\* then back in _main_loop
FinalizeRest ==
    /\ pc = "learn"
    /\ IF tasks[cur].status = "completed"
       THEN LET r == add_long_term_memory(LearningText(tasks[cur]), 80, next_id,
                                          Now(clock))
            IN  /\ long_term' = r.long_term
                /\ memory_metadata' = r.memory_metadata
                /\ next_id' = next_id + 1
                /\ clock' = clock + 1
       ELSE UNCHANGED <<long_term, memory_metadata, next_id, clock>>
    /\ current_context' = {}
    /\ active_tasks' = active_tasks \ {cur}
    /\ cur' = 0
    /\ pc' = "sleep"
    /\ UNCHANGED <<tasks, task_queue, is_running, step_idx, submitted,
                   finalize_calls, trace, dequeued, escaped, task_episodes, short_term,
                   episodic, short_term_added, search_in, search_out,
                   context_in, context_out, planVars,
                   evalVars, cli>>

-----------------------------------------------------------------------------
(* Specifications *)

Init ==
    /\ OrchInit
    /\ next_id = 1
    /\ MemInit
    /\ PlanIdle
    /\ EvalIdle

\* The orchestrator: callers submit, start and stop; the dispatch loop runs
Next ==
    \/ Start
    \/ Stop
    \/ execute_goal
    \/ LoopExit
    \/ LoopIdle
    \/ Dequeue
    \/ Sleep
    \/ MainLoopExcept
    \/ PlanRaises
    \/ CreatePlan
    \/ ForEnd
    \/ StepRaises
    \/ ExecuteStep
    \/ HandleFailure
    \/ AfterLoop
    \/ Finally
    \/ StoreReturns
    \/ StoreRaises
    \/ FinalizeRest

Spec == Init /\ [][Next]_vars

\* The memory store alone, driven by calls with drawn arguments
MemNext ==
    AddShortTerm \/ AddLongTerm \/ StoreEpisode \/ Search \/ RelevantContext

SpecMem == Init /\ [][MemNext]_vars

\* The memory store with calls in which the second of the two stores fails
MemFaultNext ==
    \/ AddShortTerm
    \/ AddLongTerm
    \/ AddShortTermRaises
    \/ AddLongTermRaises
    \/ AddShortTermDeleteRaises

SpecMemFault == Init /\ [][MemFaultNext]_vars

\* _create_fallback_plan on every drawn goal
PlanFnInit ==
    /\ OrchInit
    /\ next_id = 1
    /\ MemInit
    /\ PlanInit
    /\ EvalIdle

SpecPlan == PlanFnInit /\ [][CallFallbackPlan]_vars

\* evaluate_options on every drawn candidate list and response
EvalFnInit ==
    /\ OrchInit
    /\ next_id = 1
    /\ MemInit
    /\ PlanIdle
    /\ EvalInit

SpecEval == EvalFnInit /\ [][CallEvaluate]_vars

\* CLI mode. The coroutine reaches its prompt; what is typed there, and
\* when, is the user's choice: input() blocks until a line arrives, and
\* nothing obliges the user to type one or to quit.
SpecCli ==
    /\ Init
    /\ [][CliNext]_vars
    /\ WF_vars(CliCreateTask)

-----------------------------------------------------------------------------
(* Properties of the orchestrator *)

Terminal == {"completed", "failed"}

\* _execute_task is running for task t
InFlight(t) ==
    /\ cur = t
    /\ pc \in {"create_plan", "for_step", "handle_failure", "after_loop",
               "finally", "store_episode", "learn"}

\* _execute_task was called for task t and has returned or raised
Ended(t) == t \in Range(dequeued) /\ ~InFlight(t)

ChainEdge(old, new) ==
    \/ old = "pending" /\ new = "planning"
    \/ old = "planning" /\ new = "executing"
    \/ old = "executing" /\ new \in Terminal

\* C1: a task is created Pending and every change of its status
\* is one step along Pending -> Planning -> Executing -> {Completed, Failed},
\* so that a terminal status is reached only through each earlier status.
C1_StrictChain ==
    [][ /\ \A t \in DOMAIN tasks' \ DOMAIN tasks : tasks'[t].status = "pending"
        /\ \A t \in DOMAIN tasks :
              tasks'[t].status # tasks[t].status
                  => ChainEdge(tasks[t].status, tasks'[t].status) ]_vars

\* C1 amended: the status only moves forward and never returns to a status
\* it has left; Executing and Completed are reached only through Planning
\* and Executing in order, while Failed is reached from Executing or, when
\* planning raises, directly from Planning.
C1_ForwardOnly ==
    [][ /\ \A t \in DOMAIN tasks' \ DOMAIN tasks : tasks'[t].status = "pending"
        /\ \A t \in DOMAIN tasks :
              tasks'[t].status # tasks[t].status
                  => \/ ChainEdge(tasks[t].status, tasks'[t].status)
                     \/ /\ tasks[t].status = "planning"
                        /\ tasks'[t].status = "failed" ]_vars

\* C1 witness: one task failed while planning, another ran its steps to
\* Completed
C1_Witness ==
    \E t, u \in DOMAIN tasks :
        /\ tasks[t].status = "failed"
        /\ tasks[t].plan = <<>>
        /\ tasks[t].error = ExceptionText
        /\ tasks[u].status = "completed"
        /\ Len(tasks[u].actions) > 0

\* all of _finalize_task has run for task t
Finalized(t) == finalize_calls[t] = 1 /\ t \notin active_tasks /\ Ended(t)

\* C2: tasks are served in submission order, one at a time: at most one
\* task is Planning or Executing, the tasks dequeued are a prefix of the
\* tasks submitted, and every task dequeued before the latest one is
\* terminal and finalized.
C2_FifoOneAtATime ==
    /\ Cardinality({t \in DOMAIN tasks :
                        tasks[t].status \in {"planning", "executing"}}) <= 1
    /\ Len(dequeued) <= Len(submitted)
    /\ dequeued = SubSeq(submitted, 1, Len(dequeued))
    /\ \A i \in 1..(Len(dequeued) - 1) :
          /\ tasks[dequeued[i]].status \in Terminal
          /\ Finalized(dequeued[i])

EpisodeCount(t) == Cardinality({e \in task_episodes : e.id = t})

\* C3: once _execute_task has ended for a task, finalization has run
\* exactly once for it and exactly one episode of it is stored, never zero
\* and never two; no task the loop has not taken is finalized.
C3_ExactlyOneEpisode ==
    \A t \in DOMAIN tasks :
        /\ finalize_calls[t] <= 1
        /\ EpisodeCount(t) <= 1
        /\ Ended(t) => finalize_calls[t] = 1 /\ EpisodeCount(t) = 1
        /\ t \notin Range(dequeued) => finalize_calls[t] = 0

\* C4: no exception leaves _execute_task: it always returns normally to
\* _main_loop.
C4_NothingEscapes == escaped = {} /\ pc # "main_except"

StepEntries(t) == SelectSeq(tasks[t].actions, LAMBDA e : e.type = "step")

LastEntry(t) == tasks[t].actions[Len(tasks[t].actions)]

\* the last thing logged for t is a failed step, and its recovery is over
UnrecoveredFailure(t) ==
    /\ Len(tasks[t].actions) > 0
    /\ LastEntry(t).type = "step"
    /\ ~LastEntry(t).result.success
    /\ ~(cur = t /\ pc = "handle_failure")

\* C5: when plan step k failed and its recovery did not succeed, the task
\* is Failed, its error names k and the error text of the step, the log
\* holds exactly k step entries, the last of them for plan step k, and no
\* later step runs (the error is set only by such a failure, and stays).
C5_FailedAtStep ==
    \A t \in DOMAIN tasks :
        /\ UnrecoveredFailure(t) =>
              LET k == LastEntry(t).step
              IN  /\ tasks[t].status = "failed"
                  /\ Len(StepEntries(t)) = k
                  /\ k \in 1..Len(tasks[t].plan)
                  /\ LastEntry(t).action = tasks[t].plan[k]
                  /\ tasks[t].error =
                         <<"Failed at step ", ToString(k), ": ">>
                             \o LastEntry(t).result.error
                  /\ cur = t => step_idx = k - 1
        /\ (tasks[t].error # NoText /\ tasks[t].error[1] = "Failed at step ")
              => UnrecoveredFailure(t)

\* C5 witness: step 1 succeeded, step 2 failed and was not recovered
C5_Witness ==
    \E t \in DOMAIN tasks :
        /\ UnrecoveredFailure(t)
        /\ LastEntry(t).step = 2
        /\ tasks[t].actions[1].result.success
        /\ Ended(t)

\* C6: a failed or malformed answer of the generation collaborator never
\* fails a task: a task that ended, whose logged actions all succeeded and
\* in which no other collaborator raised, is Completed.
C6_GenerationNeverFatal ==
    \A t \in DOMAIN tasks :
        ( /\ Ended(t)
          /\ \A i \in 1..Len(tasks[t].actions) : tasks[t].actions[i].result.success
          /\ tasks[t].error # ExceptionText )
        => tasks[t].status = "completed"

-----------------------------------------------------------------------------
(* Properties of the fallback plan *)

\* letter c of a goal is letter d of a keyword, in either case
SameLetter(c, d) ==
    \/ c = d
    \/ <<c, d>> \in { <<"S", "s">>, <<"E", "e">>, <<"A", "a">>, <<"R", "r">>,
                      <<"C", "c">>, <<"H", "h">>, <<"F", "f">>, <<"I", "i">>,
                      <<"N", "n">>, <<"D", "d">>, <<"L", "l">> }

Mentions(goal, word) ==
    \E off \in 0..(Len(goal) - Len(word)) :
        \A k \in 1..Len(word) : SameLetter(goal[off + k], word[k])

\* C7: the fallback plan is never empty and follows the keyword table: a
\* goal mentioning "search" or "find" in any case gives a search_web step
\* for the goal, one mentioning "file" or "read" a list_directory step, one
\* mentioning both gives the two in that order, and any other goal, the
\* empty one included, gives exactly one get_system_info step.
C7_KeywordTable ==
    plan_called =>
        LET searches == Mentions(goal_in, W_search) \/ Mentions(goal_in, W_find)
            files    == Mentions(goal_in, W_file) \/ Mentions(goal_in, W_read)
        IN  /\ Len(plan_out) >= 1
            /\ ActionsOf(plan_out) =
                  IF searches \/ files
                  THEN (IF searches THEN <<"search_web">> ELSE <<>>)
                       \o (IF files THEN <<"list_directory">> ELSE <<>>)
                  ELSE <<"get_system_info">>
            /\ searches => plan_out[1].parameters.query = goal_in

\* C7 witness: a goal in mixed case matching both rows of the table
C7_Witness ==
    /\ plan_called
    /\ goal_in = <<"f", "i", "n", "d", "F", "I", "L", "E">>
    /\ ActionsOf(plan_out) = <<"search_web", "list_directory">>

-----------------------------------------------------------------------------
(* Properties of the decision strategy *)

\* C8: the DecisionPoint evaluate_options returns selects one of the
\* candidate actions, and the expected value of the selected action is the
\* greatest expected value among the candidates.
C8_SelectedIsBestCandidate ==
    eval_called =>
        /\ eval_out.selected_option \in Range(eval_actions)
        /\ Range(eval_actions) \subseteq DOMAIN eval_out.expected_value
        /\ \A a \in Range(eval_actions) :
              eval_out.expected_value[a]
                  <= eval_out.expected_value[eval_out.selected_option]

-----------------------------------------------------------------------------
(* Properties of the memory store *)

Ids(collection) == [i \in 1..Len(collection) |-> collection[i].id]

Scored(name, query) ==
    { [id |-> m.id, memory_type |-> name,
       distance |-> Distance(Embed(query), m.embedding)]
        : m \in Range(Collections(name)) }

Searched(memory_type, query) ==
    IF memory_type = "all"
    THEN Scored("short_term", query) \cup Scored("long_term", query)
             \cup Scored("episodic", query)
    ELSE Scored(memory_type, query)

Hit(r) == [id |-> r.id, memory_type |-> r.memory_type, distance |-> r.distance]

\* C10: search_memories returns at most limit results in non-decreasing
\* order of distance; they are the nearest items of the tiers searched (of
\* all three for "all"): as many as the limit allows, each returned once,
\* and no item left out is nearer than a returned one.
C10_NearestSorted ==
    search_in # NoSearch =>
        LET all  == Searched(search_in.memory_type, search_in.query)
            hits == {Hit(search_out[i]) : i \in 1..Len(search_out)}
        IN  /\ Len(search_out) <= search_in.limit
            /\ \A i \in 1..(Len(search_out) - 1) :
                  search_out[i].distance <= search_out[i + 1].distance
            /\ hits \subseteq all
            /\ Cardinality(hits) = Len(search_out)
            /\ Len(search_out) = Min(search_in.limit, Cardinality(all))
            /\ \A u \in all \ hits :
                  \A h \in hits : h.distance <= u.distance

\* C10 witness: a search of all tiers that returns items of two tiers, the
\* nearest not of the first tier queried, and leaves a farther item out
C10_Witness ==
    /\ search_in # NoSearch
    /\ search_in.memory_type = "all"
    /\ Len(search_out) = 2
    /\ search_out[1].memory_type = "long_term"
    /\ search_out[2].memory_type = "short_term"
    /\ \E u \in Searched("all", search_in.query) :
          /\ u.id \notin {search_out[1].id, search_out[2].id}
          /\ u.distance > search_out[2].distance

\* C11: get_relevant_context returns at most limit entries in non-increasing
\* order of relevance; every episode entry is the text of an episode flagged
\* successful, and of no unsuccessful one, with relevance 1 - distance; every
\* long-term entry has relevance (1 - distance) x importance_score, taken as
\* 1.0 when the memory has none.
C11_RelevantContext ==
    context_in # NoContext =>
        LET q == Embed(context_in.current_goal)
        IN  /\ Len(context_out) <= context_in.limit
            /\ \A i \in 1..(Len(context_out) - 1) :
                  context_out[i].relevance >= context_out[i + 1].relevance
            /\ \A i \in 1..Len(context_out) :
                  LET c == context_out[i]
                  IN  \/ /\ c.type = "successful_episode"
                         /\ \E m \in Range(episodic) :
                               /\ m.metadata.success
                               /\ m.document = c.content
                               /\ c.relevance =
                                      (1 - Distance(q, m.embedding)) * 100
                         /\ \A m \in Range(episodic) :
                               ~m.metadata.success => m.document # c.content
                      \/ /\ c.type = "long_term_memory"
                         /\ \E m \in Range(long_term) :
                               /\ m.document = c.content
                               /\ c.relevance =
                                      (1 - Distance(q, m.embedding))
                                          * (IF "importance_score"
                                                    \in DOMAIN m.metadata
                                             THEN m.metadata.importance_score
                                             ELSE 100)
            /\ Cardinality({i \in 1..Len(context_out) :
                               context_out[i].type = "successful_episode"})
                  <= Cardinality({i \in 1..Len(episodic) :
                                     episodic[i].metadata.success})

\* C11 witness: a successful episode and a long-term memory of importance
\* 0.5 are returned, while an unsuccessful episode nearer to the goal than
\* the successful one is stored
C11_Witness ==
    /\ context_in # NoContext
    /\ Len(context_out) = 2
    /\ \E i, j \in 1..2 :
          /\ context_out[i].type = "successful_episode"
          /\ context_out[j].type = "long_term_memory"
          /\ \E m \in Range(long_term) :
                /\ m.document = context_out[j].content
                /\ m.metadata.importance_score = 50
          /\ \E m \in Range(episodic) :
                /\ ~m.metadata.success
                /\ (1 - Distance(Embed(context_in.current_goal), m.embedding))
                       * 100 > context_out[i].relevance

----------------------------------------------------------------------------
\* C12: a submission (execute_goal) adds exactly one task that did not exist,
\* in status pending with an empty plan and an empty action log, appends its
\* id at the tail of the queue, and returns without planning or executing
\* anything: every other task, the order of the ids already queued, the
\* position of the task in flight and the memory stay as they were.
C12_SubmitFrame ==
    [][ submitted' # submitted =>
          LET id == submitted'[Len(submitted')]
          IN  /\ submitted' = Append(submitted, id)
              /\ id \notin DOMAIN tasks
              /\ DOMAIN tasks' = DOMAIN tasks \cup {id}
              /\ tasks'[id].status = "pending"
              /\ tasks'[id].plan = <<>>
              /\ tasks'[id].actions = <<>>
              /\ task_queue' = Append(task_queue, id)
              /\ \A t \in DOMAIN tasks : tasks'[t] = tasks[t]
              /\ UNCHANGED <<pc, cur, step_idx, dequeued, is_running,
                             current_context, memVars>> ]_vars

\* C12 witness: a task was submitted while another one was in flight, after
\* that one had executed a step, and the submitted one is queued and pending
\* while the one in flight is still executing.
C12_Witness ==
    /\ pc = "for_step"
    /\ \E i \in 1..Len(trace), j \in 1..Len(trace) :
         /\ i < j
         /\ trace[i].kind = "log"
         /\ trace[j].kind = "submit"
    /\ Len(task_queue) >= 1
    /\ tasks[task_queue[Len(task_queue)]].status = "pending"
    /\ tasks[cur].status = "executing"
    /\ Len(tasks[cur].actions) >= 1

----------------------------------------------------------------------------
\* C13: every submitted task is eventually dequeued and reaches a terminal
\* status (completed or failed), in particular a task submitted through the
\* CLI loop once that loop has started the dispatch loop; only the stop of
\* the orchestrator at the end of the CLI session releases the obligation.
C13_EventuallyTerminal ==
    \A i \in 1..MaxTasks :
        (Len(submitted) >= i)
          ~> \/ cli = "done"
             \/ /\ Len(submitted) >= i
                /\ \E j \in 1..Len(dequeued) : dequeued[j] = submitted[i]
                /\ tasks[submitted[i]].status \in Terminal

----------------------------------------------------------------------------
\* C14: whenever no task is being executed, the statistics agree with the
\* history of the tasks executed so far: total_episodes is the number of
\* tasks whose execution has ended, successful_episodes the number of those
\* that ended completed (so between 0 and total_episodes), and success_rate
\* their quotient, 0 when no task has ended.
C14_StatsMatchHistory ==
    LET finalized == {t \in DOMAIN tasks : Ended(t)}
        completed == {t \in finalized : tasks[t].status = "completed"}
        stats     == get_memory_stats
    IN  (\A t \in DOMAIN tasks : ~InFlight(t)) =>
          /\ stats.total_episodes = Cardinality(finalized)
          /\ stats.successful_episodes = Cardinality(completed)
          /\ 0 <= stats.successful_episodes
          /\ stats.successful_episodes <= stats.total_episodes
          /\ stats.success_rate =
                IF Cardinality(finalized) > 0
                THEN (Cardinality(completed) * 100) \div Cardinality(finalized)
                ELSE 0

----------------------------------------------------------------------------
\* the calls recorded for the steps of the _execute_task call in progress:
\* the planning answer and the submissions made meanwhile left out
IsCall(event) == event.kind \notin {"submit", "plan"}
Calls == SelectSeq(trace, IsCall)

\* C15: an action name that is not registered yields a failed ActionResult
\* ("Unknown action: <name>") and no exception. A plan step naming one is
\* logged as a failed step and recovery is requested for it; an alternative
\* naming one is a failed recovery: no recovery entry is logged for it and
\* the task fails at the step; hence every recovery entry of every log names
\* a registered action.
C15_UnregisteredFails ==
    [](LET calls == Calls
       IN
           /\ \A name \in ActionNames \cup {"launch_rocket"} :
                 name \notin RegisteredActions =>
                   \A r \in execute_action(name) :
                       ~r.success /\ r.error = <<"Unknown action: ", name>>
           /\ \A t \in DOMAIN tasks :
                 \A i \in 1..Len(tasks[t].actions) :
                   LET entry == tasks[t].actions[i]
                   IN  /\ (entry.type = "step"
                             /\ entry.action.action \notin RegisteredActions)
                           => /\ ~entry.result.success
                              /\ entry.result.error =
                                    <<"Unknown action: ", entry.action.action>>
                       /\ entry.type = "recovery"
                           => /\ entry.alternative.alternative_action
                                    \in RegisteredActions
                              /\ entry.result.success
           /\ \A i \in 1..Len(calls) :
                 /\ (calls[i].kind = "log" /\ calls[i].name \notin RegisteredActions)
                     => IF i = Len(calls)
                        THEN pc = "handle_failure"
                        ELSE /\ calls[i + 1].kind = "request"
                             /\ calls[i + 1].step = calls[i].step
                 /\ (calls[i].kind = "attempt"
                       /\ calls[i].name \notin RegisteredActions)
                     => /\ i = Len(calls)
                        /\ tasks[cur].status = "failed"
                        /\ SubSeq(tasks[cur].error, 1, 3)
                              = <<"Failed at step ", ToString(calls[i].step), ": ">>)

\* C15 witness: a plan step naming an unregistered action was executed and
\* logged as failed, recovery proposed an unregistered alternative, and the
\* task has failed at that step.
C15_Witness ==
    /\ pc = "after_loop"
    /\ tasks[cur].status = "failed"
    /\ \E i \in 1..Len(Calls), j \in 1..Len(Calls) :
         /\ i < j
         /\ Calls[i].kind = "log"
         /\ Calls[i].name = "launch_rocket"
         /\ Calls[j].kind = "attempt"
         /\ Calls[j].name = "launch_rocket"
         /\ Calls[j].step = Calls[i].step

----------------------------------------------------------------------------
\* the ids given to store_task_episode so far by the memory operations: every
\* id handed out that was not given to a short-term or a long-term memory
StoredEpisodeIds ==
    (1..Added) \ ({short_term_added[i][1] : i \in 1..Len(short_term_added)}
                     \cup {long_term[i].id : i \in 1..Len(long_term)})

----------------------------------------------------------------------------
\* the number of calls of one kind made for plan step number k in calls
CallCount(calls, kind, k) ==
    Cardinality({i \in 1..Len(calls) :
                    calls[i].kind = kind /\ calls[i].step = k})

\* C17: for a failed plan step at most one alternative is requested and at
\* most one is attempted, and the step is executed once only. A recovery
\* entry stands right after the entry of the failed step it recovers, holds
\* a successful result, and is followed, if by anything, by the entry of the
\* next plan step; a failed step entry with no recovery entry behind it is
\* the last entry of its log.
C17_OneShotRecovery ==
    [](LET calls == Calls
       IN
           /\ \A k \in {calls[i].step : i \in 1..Len(calls)} :
                 /\ CallCount(calls, "execute", k) <= 1
                 /\ CallCount(calls, "request", k) <= 1
                 /\ CallCount(calls, "attempt", k) <= CallCount(calls, "request", k)
                 /\ CallCount(calls, "recovery_log", k) <= CallCount(calls, "attempt", k)
           /\ \A i \in 1..Len(calls) :
                 calls[i].kind = "request" =>
                   /\ i > 1
                   /\ calls[i - 1].kind = "log"
                   /\ calls[i - 1].step = calls[i].step
           /\ \A t \in DOMAIN tasks :
                 LET log == tasks[t].actions
                 IN  \A i \in 1..Len(log) :
                       /\ log[i].type = "recovery" =>
                             /\ i > 1
                             /\ log[i - 1].type = "step"
                             /\ ~log[i - 1].result.success
                             /\ log[i].original_step = log[i - 1].action
                             /\ log[i].result.success
                             /\ i < Len(log) =>
                                   /\ log[i + 1].type = "step"
                                   /\ log[i + 1].step = log[i - 1].step + 1
                       /\ (log[i].type = "step" /\ ~log[i].result.success) =>
                             IF i < Len(log)
                             THEN log[i + 1].type = "recovery"
                             ELSE \/ InFlight(t) /\ pc = "handle_failure"
                                  \/ tasks[t].status = "failed"
                       /\ log[i].type = "step" =>
                             \A j \in 1..Len(log) :
                                 (j # i /\ log[j].type = "step")
                                   => log[j].step # log[i].step)

\* C17 witness: a task has ended completed although one of its steps
\* failed: the log holds the failed step, its recovery entry, and the entry
\* of the next plan step.
C17_Witness ==
    \E t \in DOMAIN tasks :
        /\ Ended(t)
        /\ tasks[t].status = "completed"
        /\ \E i \in 2..(Len(tasks[t].actions) - 1) :
              /\ tasks[t].actions[i].type = "recovery"
              /\ ~tasks[t].actions[i - 1].result.success
              /\ tasks[t].actions[i + 1].type = "step"

----------------------------------------------------------------------------
\* the place of a call within the handling of one plan step
Rank(kind) ==
    CASE kind = "evaluate"     -> 1
      [] kind = "execute"      -> 2
      [] kind = "remember"     -> 3
      [] kind = "log"          -> 4
      [] kind = "request"      -> 5
      [] kind = "attempt"      -> 6
      [] kind = "recovery_log" -> 7

\* C19: the steps of a task run one after the other in plan order: every
\* call made for step k (evaluation, execution, log entry, recovery) comes
\* before every call made for step k + 1, steps are taken up in the order
\* 1, 2, 3, ... with none skipped, and within a step the evaluation of the
\* decision strategy precedes the execute_action call, which precedes the
\* log entry, which precedes any recovery; the step entries of every log
\* carry strictly increasing step numbers.
C19_StrictlySequential ==
    [](LET calls == Calls
       IN
           /\ \A i \in 1..(Len(calls) - 1) :
                 \/ /\ calls[i + 1].step = calls[i].step
                    /\ Rank(calls[i + 1].kind) > Rank(calls[i].kind)
                 \/ /\ calls[i + 1].step = calls[i].step + 1
                    /\ calls[i + 1].kind = "evaluate"
                    /\ calls[i].kind \in {"log", "recovery_log"}
           /\ Len(calls) >= 1 => calls[1].step = 1 /\ calls[1].kind = "evaluate"
           /\ \A i \in 1..Len(calls) :
                 calls[i].kind = "execute" =>
                   /\ i > 1
                   /\ calls[i - 1].kind = "evaluate"
                   /\ calls[i - 1].step = calls[i].step
                   /\ calls[i - 1].name = calls[i].name
           /\ \A t \in DOMAIN tasks :
                 LET log   == tasks[t].actions
                     steps == {i \in 1..Len(log) : log[i].type = "step"}
                 IN  /\ \A i \in steps, j \in steps :
                           i < j => log[i].step < log[j].step
                     /\ \A i \in steps :
                           /\ log[i].step \in 1..Len(tasks[t].plan)
                           /\ log[i].action = tasks[t].plan[log[i].step]
                     /\ (cur = t /\ pc \in {"for_step", "handle_failure",
                                             "after_loop", "finally"}) =>
                           \A k \in 1..Len(tasks[t].plan) :
                               CallCount(calls, "log", k)
                                 = Cardinality({i \in steps : log[i].step = k}))

\* C19 witness: the second step of a plan is being handled after the first
\* one failed and was recovered: its evaluation and execution follow the
\* recovery of step 1.
C19_Witness ==
    /\ pc \in {"for_step", "handle_failure", "after_loop"}
    /\ \E i \in 1..Len(Calls), j \in 1..Len(Calls) :
          /\ i < j
          /\ Calls[i].kind = "recovery_log"
          /\ Calls[i].step = 1
          /\ Calls[j].kind = "execute"
          /\ Calls[j].step = 2
    /\ Len(tasks[cur].actions) = 3

----------------------------------------------------------------------------
\* C18: whenever the planning response failed in transport or is not
\* strictly a JSON array of Steps (not JSON, JSON that is no array, an array
\* with an element that is no Step), the plan the task executes is exactly
\* _create_fallback_plan(goal), and is not empty.
C18_MalformedMeansFallback ==
    \A i \in 1..Len(trace) :
        (trace[i].kind = "plan" /\ trace[i].name # "steps") =>
            /\ tasks[cur].plan = _create_fallback_plan(tasks[cur].goal)
            /\ tasks[cur].plan # <<>>

----------------------------------------------------------------------------
\* C20: every successful step stores its result in Task.context under the
\* key step_<index> of the step (the index counted from 0 as the code's
\* step_idx or from 1 as the log entry's step number): the context of a
\* task holds such a key for each successful step entry of its log.
C20_ResultsInTaskContext ==
    \A t \in DOMAIN tasks :
        \A i \in 1..Len(tasks[t].actions) :
            LET entry == tasks[t].actions[i]
            IN  (entry.type = "step" /\ entry.result.success) =>
                    \/ ContextKey(entry.step - 1) \in DOMAIN tasks[t].context
                    \/ ContextKey(entry.step) \in DOMAIN tasks[t].context

----------------------------------------------------------------------------
\* C21: the two stores agree on the memories of the short-term and the
\* long-term tier in every reachable state, also after a call in which the
\* write to the second store failed: an id is in the short_term or long_term
\* collection if and only if the table memory_metadata has a row for it.
C21_VectorIffMetadata ==
    {short_term[i].id : i \in 1..Len(short_term)}
        \cup {long_term[i].id : i \in 1..Len(long_term)}
    = {row.id : row \in memory_metadata}

----------------------------------------------------------------------------
\* the response makes evaluate_options take the model-driven path
ModelDriven(response) == response.success /\ response.content.kind = "object"

\* C22: evaluate_options validates a model-driven evaluation before it
\* returns it: when the response's selected_option is not a candidate action
\* or not a key of its expected_value, the returned DecisionPoint is the one
\* of the fallback heuristic; so a returned selected_option, if set, is
\* always a key of expected_value.
C22_ValidatedOrFallback ==
    eval_called =>
        /\ (/\ ModelDriven(eval_response)
            /\ LET data == eval_response.content.fields
                   sel  == Get(data, "selected_option", None)
                   ev   == Get(data, "expected_value", EmptyDict)
               IN  sel \notin Range(eval_actions) \/ sel \notin DOMAIN ev)
           => eval_out = _fallback_evaluation(eval_actions)
        /\ eval_out.selected_option # None
           => eval_out.selected_option \in DOMAIN eval_out.expected_value

\* C23: the fallback heuristic gives every candidate its table prior p (0.5
\* outside the table), risk 1 - p and expected value p x (1 - risk), and
\* selects the candidate of greatest expected value, the earliest one on a
\* tie; and every option of every returned DecisionPoint, model-driven ones
\* included, has expected_value = success_probability x (1 - risk_score).
C23_ExpectedValueFormula ==
    eval_called =>
        /\ \A i \in 1..Len(eval_out.options) :
              LET o == eval_out.options[i]
              IN  o.expected_value
                    = o.success_probability * (100 - o.risk_score)
        /\ ~ModelDriven(eval_response) =>
              /\ Len(eval_out.options) = Len(eval_actions)
              /\ \A i \in 1..Len(eval_actions) :
                    LET o == eval_out.options[i]
                    IN  /\ o.action = eval_actions[i]
                        /\ o.success_probability = Priority(eval_actions[i])
                        /\ o.risk_score = 100 - o.success_probability
                        /\ eval_out.expected_value[o.action] = o.expected_value
                        /\ eval_out.risk_assessment[o.action] = o.risk_score
              /\ \E i \in 1..Len(eval_actions) :
                    /\ eval_out.selected_option = eval_actions[i]
                    /\ \A j \in 1..Len(eval_actions) :
                          eval_out.expected_value[eval_actions[j]]
                            <= eval_out.expected_value[eval_actions[i]]
                    /\ \A j \in 1..(i - 1) :
                          eval_out.expected_value[eval_actions[j]]
                            < eval_out.expected_value[eval_actions[i]]

----------------------------------------------------------------------------
\* C24: once the execution of a task has ended, whatever its outcome, its
\* id is neither in active_tasks nor in task_queue; while no task is being
\* executed the working context is empty, and a task that starts finds in it
\* only the key it has just written itself.
C24_NothingLeftBehind ==
    /\ \A t \in DOMAIN tasks :
          Ended(t) => t \notin active_tasks /\ t \notin Range(task_queue)
    /\ (\A t \in DOMAIN tasks : ~InFlight(t)) => current_context = {}
    /\ pc = "create_plan" => current_context = {<<"current_task">>}

----------------------------------------------------------------------------
\* C25: a task whose status is completed or failed is never written again:
\* no step changes any of its fields (status, plan, actions, context,
\* end_time, result, error).
C25_TerminalImmutable ==
    [][\A t \in DOMAIN tasks :
          tasks[t].status \in Terminal => tasks'[t] = tasks[t]]_vars

----------------------------------------------------------------------------
(* Cancellation of the coroutine of start(), as orchestrator_task.cancel()
   of run_cli_mode requests it. asyncio delivers CancelledError where the
   coroutine is suspended. Between task_queue.pop(0) and the return of
   _finalize_task nothing suspends: llm_gateway.generate posts with the
   blocking requests session, action_toolkit.execute_action is a plain call,
   and no method of MemoryCore awaits anything. The coroutine is suspended
   only before its first step and in the two asyncio.sleep calls of
   _main_loop; CancelledError is not an Exception, so except Exception lets
   it leave the loop. *)
Cancel ==
    /\ pc \in {"init", "sleep", "main_except"}
    /\ pc' = "cancelled"
    /\ cur' = 0
    /\ UNCHANGED <<tasks, active_tasks, task_queue, is_running, step_idx,
                   submitted, finalize_calls, trace, dequeued, escaped,
                   current_context, next_id, memVars, planVars, evalVars, cli>>

CancelNext == Next \/ Cancel

\* The orchestrator with a caller that may also cancel the loop's coroutine
SpecCancel == Init /\ [][CancelNext]_vars

\* s is an initial part of t
IsPrefix(s, t) == Len(s) <= Len(t) /\ SubSeq(t, 1, Len(s)) = s

C27_EpisodeOfFinishedTask ==
    /\ [][\A e \in task_episodes' \ task_episodes :
             /\ e.id = cur
             /\ tasks[cur].status \in Terminal
             /\ e.success = (tasks[cur].status = "completed")]_vars
    /\ [](\A e \in task_episodes :
             /\ e.id \in DOMAIN tasks
             /\ tasks[e.id].status \in Terminal
             /\ e.success = (tasks[e.id].status = "completed"))

\* the coroutine was cancelled after an episode of a completed task
C27_Witness ==
    /\ pc = "cancelled"
    /\ \E e \in task_episodes : e.success

----------------------------------------------------------------------------
\* get_status(): the two counts of the snapshot
get_status ==
    [active_tasks |-> Cardinality(active_tasks),
     queued_tasks |-> Len(task_queue)]

\* C28: every id in the queue occurs there once and names a pending task of
\* the active set; every task of the active set is either queued and
\* pending or the single task in flight; hence every snapshot has
\* queued_tasks <= active_tasks <= queued_tasks + 1.
C28_QueueAndActiveSet ==
    /\ \A i, j \in 1..Len(task_queue) : task_queue[i] = task_queue[j] => i = j
    /\ \A t \in Range(task_queue) :
          t \in active_tasks /\ tasks[t].status = "pending"
    /\ \A t \in active_tasks :
          \/ t \in Range(task_queue) /\ tasks[t].status = "pending"
          \/ InFlight(t)
    /\ get_status.queued_tasks <= get_status.active_tasks
    /\ get_status.active_tasks <= get_status.queued_tasks + 1

----------------------------------------------------------------------------
----------------------------------------------------------------------------
\* C30: an exception that escapes the execution of a task does not stop
\* the loop: the loop ends only when the orchestrator was stopped; the step
\* after the exception leads back to the loop test with the queue intact;
\* at the loop test, while the orchestrator is running and a task is
\* queued, the loop's step is to dequeue the head of the queue and start
\* it; and the task whose execution raised is not queued again and was
\* dequeued once only.
C30_LoopSurvivesException ==
    /\ [](pc = "exited" => ~is_running)
    /\ [](\A t \in escaped :
             /\ t \notin Range(task_queue)
             /\ Cardinality({i \in 1..Len(dequeued) : dequeued[i] = t}) = 1)
    /\ [][(pc = "main_except" /\ pc' # pc) =>
              (/\ pc' = "loop_test"
               /\ task_queue' = task_queue
               /\ is_running' = is_running)]_vars
    /\ [][(pc = "loop_test" /\ is_running /\ task_queue # <<>> /\ pc' # pc) =>
              (/\ pc' = "create_plan"
               /\ cur' = Head(task_queue)
               /\ cur' \notin escaped
               /\ dequeued' = Append(dequeued, cur')
               /\ task_queue' = Tail(task_queue))]_vars

\* after an exception escaped from one task, the next one was dequeued and
\* finalized while the orchestrator was running
C30_Witness ==
    /\ is_running
    /\ escaped # {}
    /\ \E u \in DOMAIN tasks : u \notin escaped /\ finalize_calls[u] = 1
                                /\ Len(dequeued) = 2 /\ dequeued[2] = u
====
